---- MODULE Spec2Model ----
(***************************************************************************)
(* Model of app.py: module initialisation (lines 16-36), the OCR function  *)
(* ocr_pdf_or_image (39-62), extract_entities_with_gemini (65-106) and the *)
(* Flask handler extract_entities_endpoint (109-163), served by a threaded *)
(* HTTP server (one thread per request).                                   *)
(*                                                                         *)
(* Text that the code inspects (file names, OCR text, the model's reply)   *)
(* is a sequence of one-character strings; fixed messages are strings.     *)
(***************************************************************************)
EXTENDS Naturals, Sequences, FiniteSets, TLC

\* ------------------------------------------------------------------ bounds
\* Most pages a rasterised PDF has in the model.
MaxPages == 2

\* Requests the server handles, each on its own thread.
Requests == {"r1", "r2"}

\* Names tempfile can hand out (stem of the path, before the suffix).
TmpStems == {<<"t", "A">>, <<"t", "B">>}

\* What tesseract can read off one page image.
PageTexts == {<< >>, <<" ">>, <<"a">>}

\* ------------------------------------------------------- text primitives
None == "None"

\* str.lower() on one character, for the characters file names use.
LowerChar(c) ==
    CASE c = "P" -> "p"
      [] c = "D" -> "d"
      [] c = "F" -> "f"
      [] OTHER -> c

\* str.lower()
Lower(s) == [i \in 1..Len(s) |-> LowerChar(s[i])]

\* str.endswith(suffix)
EndsWith(s, suffix) ==
    /\ Len(suffix) <= Len(s)
    /\ SubSeq(s, Len(s) - Len(suffix) + 1, Len(s)) = suffix

\* Characters str.strip() removes.
IsSpace(c) == c \in {" ", "\n", "\t", "\r"}

\* bool(s.strip()): some character of s is not whitespace.
StripNonEmpty(s) == \E i \in 1..Len(s) : ~IsSpace(s[i])

\* The literal of line 132.
PageBreak ==
    << "\n", "\n", "-", "-", "-", " ", "P", "a", "g", "e", " ",
       "B", "r", "e", "a", "k", " ", "-", "-", "-", "\n", "\n" >>

\* sep.join(parts), as str.join does: the separator before every part but
\* the first.
RECURSIVE Join(_, _)
Join(sep, parts) ==
    IF Len(parts) = 0 THEN << >>
    ELSE IF Len(parts) = 1 THEN parts[1]
    ELSE parts[1] \o sep \o Join(sep, Tail(parts))

\* Index of the last "." of s, 0 when there is none.
LastDot(s) ==
    IF \E i \in 1..Len(s) : s[i] = "."
    THEN CHOOSE i \in 1..Len(s) :
            /\ s[i] = "."
            /\ \A j \in (i + 1)..Len(s) : s[j] # "."
    ELSE 0

\* os.path.splitext(name)[1] for a name without directory separators: the
\* text from the last dot on, unless only dots precede that dot.
SplitExt(s) ==
    LET d == LastDot(s) IN
    IF d = 0 \/ (\A j \in 1..(d - 1) : s[j] = ".") THEN << >>
    ELSE SubSeq(s, d, Len(s))

\* ----------------------------------------------------------- json.loads
\* A parsed JSON value is [t |-> kind, v |-> payload]: "int" with a number,
\* "str" with its characters, "null", "list" with the sequence of items,
\* "dict" with a function from keys to values.
JsonWs == {" ", "\n", "\t", "\r"}

Digits == {"0", "1"}

DigitValue(c) == IF c = "1" THEN 1 ELSE 0

ParseFail == [ok |-> FALSE, next |-> 0, val |-> [t |-> "null", v |-> << >>]]

ParseOk(n, val) == [ok |-> TRUE, next |-> n, val |-> val]

\* First index >= i of s that holds no JSON whitespace (Len(s)+1 at the end).
RECURSIVE SkipWs(_, _)
SkipWs(s, i) ==
    IF i <= Len(s) /\ s[i] \in JsonWs THEN SkipWs(s, i + 1) ELSE i

\* The digits from i on, read as a decimal number: <<next index, value>>.
RECURSIVE ScanDigits(_, _, _)
ScanDigits(s, i, acc) ==
    IF i <= Len(s) /\ s[i] \in Digits
    THEN ScanDigits(s, i + 1, acc * 10 + DigitValue(s[i]))
    ELSE << i, acc >>

\* An integer literal at i: "0", or a nonzero digit and more digits.
ParseInt(s, i) ==
    IF s[i] = "0" THEN ParseOk(i + 1, [t |-> "int", v |-> 0])
    ELSE LET r == ScanDigits(s, i, 0) IN
         ParseOk(r[1], [t |-> "int", v |-> r[2]])

\* Index of the closing quote of the string whose opening quote is at
\* i - 1, 0 when the string is unterminated or holds a control character.
RECURSIVE ScanString(_, _)
ScanString(s, i) ==
    IF i > Len(s) THEN 0
    ELSE IF s[i] = "\"" THEN i
    ELSE IF s[i] \in {"\n", "\t", "\r"} THEN 0
    ELSE ScanString(s, i + 1)

ParseString(s, i) ==
    LET q == ScanString(s, i + 1) IN
    IF q = 0 THEN ParseFail
    ELSE ParseOk(q + 1, [t |-> "str", v |-> SubSeq(s, i + 1, q - 1)])

RECURSIVE ParseValue(_, _)
RECURSIVE ParseItems(_, _, _)
RECURSIVE ParseMembers(_, _, _)

\* The value that starts at index i of s (no leading whitespace).
ParseValue(s, i) ==
    IF i > Len(s) THEN ParseFail
    ELSE IF s[i] = "{" THEN
        LET j == SkipWs(s, i + 1) IN
        IF j <= Len(s) /\ s[j] = "}"
        THEN ParseOk(j + 1, [t |-> "dict", v |-> << >>])
        ELSE ParseMembers(s, j, << >>)
    ELSE IF s[i] = "[" THEN
        LET j == SkipWs(s, i + 1) IN
        IF j <= Len(s) /\ s[j] = "]"
        THEN ParseOk(j + 1, [t |-> "list", v |-> << >>])
        ELSE ParseItems(s, j, << >>)
    ELSE IF s[i] = "\"" THEN ParseString(s, i)
    ELSE IF s[i] \in Digits THEN ParseInt(s, i)
    ELSE IF i + 3 <= Len(s) /\ SubSeq(s, i, i + 3) = <<"n", "u", "l", "l">>
        THEN ParseOk(i + 4, [t |-> "null", v |-> << >>])
    ELSE ParseFail

\* Items of an array from index i on, after the items in acc.
ParseItems(s, i, acc) ==
    LET r == ParseValue(s, i) IN
    IF ~r.ok THEN ParseFail
    ELSE LET j == SkipWs(s, r.next) IN
         IF j > Len(s) THEN ParseFail
         ELSE IF s[j] = "]"
             THEN ParseOk(j + 1, [t |-> "list", v |-> Append(acc, r.val)])
         ELSE IF s[j] = ","
             THEN ParseItems(s, SkipWs(s, j + 1), Append(acc, r.val))
         ELSE ParseFail

\* Members of an object from index i on, after the members in acc; a later
\* member replaces an earlier one with the same key.
ParseMembers(s, i, acc) ==
    IF i > Len(s) \/ s[i] # "\"" THEN ParseFail
    ELSE LET k == ParseString(s, i) IN
         IF ~k.ok THEN ParseFail
         ELSE LET c == SkipWs(s, k.next) IN
              IF c > Len(s) \/ s[c] # ":" THEN ParseFail
              ELSE LET r == ParseValue(s, SkipWs(s, c + 1)) IN
                   IF ~r.ok THEN ParseFail
                   ELSE LET j == SkipWs(s, r.next)
                            d == (k.val.v :> r.val) @@ acc
                        IN IF j > Len(s) THEN ParseFail
                           ELSE IF s[j] = "}"
                               THEN ParseOk(j + 1, [t |-> "dict", v |-> d])
                           ELSE IF s[j] = ","
                               THEN ParseMembers(s, SkipWs(s, j + 1), d)
                           ELSE ParseFail

\* json.loads(s): [ok |-> TRUE, val |-> value], or ok = FALSE where
\* json.loads raises JSONDecodeError (no value, or text after the value).
JsonLoads(s) ==
    LET r == ParseValue(s, SkipWs(s, 1)) IN
    IF r.ok /\ SkipWs(s, r.next) = Len(s) + 1
    THEN [ok |-> TRUE, val |-> r.val]
    ELSE [ok |-> FALSE, val |-> ParseFail.val]

\* ------------------------------------------------------- inputs, values
\* An uploaded document: what libmagic reports for its bytes and what each
\* of its pages reads as (an image is its one page).
PdfMime == "application/pdf"

ImageMime == "image/png"

RECURSIVE SeqsUpTo(_, _)
SeqsUpTo(S, n) ==
    IF n = 0 THEN {<< >>}
    ELSE LET shorter == SeqsUpTo(S, n - 1) IN
         shorter \cup {Append(q, x) : q \in shorter, x \in S}

PdfDocuments == [mime : {PdfMime}, pages : SeqsUpTo(PageTexts, MaxPages)]

ImageDocuments == [mime : {ImageMime}, pages : {<<t>> : t \in PageTexts}]

\* Bytes that are neither a PDF nor an image.
OtherDocument == [mime |-> "text/plain", pages |-> << >>]

\* A file just created, nothing written yet.
EmptyData == [mime |-> "inode/x-empty", pages |-> << >>]

Documents == PdfDocuments \cup ImageDocuments \cup {OtherDocument}

Filenames ==
    { <<"a", ".", "P", "D", "F">>, <<"b", ".", "p", "n", "g">>,
      <<".", "p", "d", "f">> }

NoFilePart == [has_file |-> FALSE, filename |-> << >>, data |-> EmptyData]

EmptyFilename == [has_file |-> TRUE, filename |-> << >>, data |-> EmptyData]

\* Every multipart body the model sends when one client is connected.
Uploads ==
    {NoFilePart, EmptyFilename}
        \cup [has_file : {TRUE}, filename : Filenames, data : Documents]

\* The bodies sent when several clients are connected at once.
ConcurrentUploads ==
    { NoFilePart, EmptyFilename,
      [has_file |-> TRUE, filename |-> <<"a", ".", "P", "D", "F">>,
       data |-> [mime |-> PdfMime, pages |-> << <<"a">>, << >> >>]],
      [has_file |-> TRUE, filename |-> <<"a", ".", "P", "D", "F">>,
       data |-> [mime |-> ImageMime, pages |-> << <<"a">> >>]],
      [has_file |-> TRUE, filename |-> <<"b", ".", "p", "n", "g">>,
       data |-> [mime |-> ImageMime, pages |-> << <<" ">> >>]],
      [has_file |-> TRUE, filename |-> <<"b", ".", "p", "n", "g">>,
       data |-> [mime |-> PdfMime, pages |-> << << >>, <<" ">> >>]],
      [has_file |-> TRUE, filename |-> <<"a", ".", "P", "D", "F">>,
       data |-> OtherDocument] }

\* Texts the generative model can answer with.
ReplyTexts ==
    { <<"{", "}">>,
      <<"{", "\"", "a", "\"", ":", "1", "}">>,
      <<"[", "1", ",", "]">>,
      <<"o", "k">>,
      << >> }

\* A response object of the model: reading .text either gives the text or
\* raises (a blocked or empty candidate).
NoReply == [present |-> FALSE, text_ok |-> FALSE, text |-> << >>]

Reply(ok, t) == [present |-> TRUE, text_ok |-> ok, text |-> t]

\* The handler's return value, before one is determined.
NoResult == [status |-> 0, body |-> [none |-> TRUE]]

Result(code, b) == [status |-> code, body |-> b]

NoJson == [t |-> "unset", v |-> << >>]

\* Messages of the exceptions the libraries raise.
MagicError == "magic: cannot open file"

PopplerError == "Unable to get page count. Is poppler installed and in PATH?"

TesseractError == "tesseract is not installed or it's not in your PATH"

ImageOpenError == "cannot identify image file"

GenerateError == "503 The service is currently unavailable."

TextAccessorError == "Invalid operation: response.text requires a valid Part"

\* ------------------------------------------------------------- state
VARIABLES
    \* process environment and module globals (lines 16-36)
    environ,          \* os.environ["GEMINI_API_KEY"], None when unset
    system,           \* what platform.system() returns on this host
    platform_bound,   \* does the name `platform` resolve at line 20
    init_pc,          \* next statement of module initialisation
    init_error,       \* exception that ended initialisation, None if none
    tesseract_cmd,    \* pytesseract.pytesseract.tesseract_cmd
    api_key,          \* module global api_key
    genai_key,        \* key genai.configure was given
    model,            \* module global model
    app,              \* module global app
    \* the server
    clients,          \* requests that will be sent to this server
    fs,               \* temporary directory: set of [path, owner, data]
    req               \* per request: position (pc), the request (upload),
                      \* the locals of extract_entities_endpoint and of the
                      \* functions it calls, the responses sent to the
                      \* client (sent) and the steps taken so far (log)

init_vars ==
    << environ, system, platform_bound, init_pc, init_error, tesseract_cmd,
       api_key, genai_key, model, app >>

vars == << init_vars, clients, fs, req >>

\* A request not yet received.
IdleRequest ==
    [ pc |-> "idle", upload |-> NoFilePart, file_path |-> << >>,
      file_type |-> None, images |-> << >>, i |-> 0, text_blocks |-> << >>,
      full_text |-> << >>, response |-> NoReply, gemini_json |-> NoJson,
      e |-> None, result |-> NoResult, sent |-> << >>, log |-> << >> ]

\* --------------------------------------------- module initialisation
WindowsTesseract == "C:/Program Files/Tesseract-OCR/tesseract.exe"

ModelName == "gemini-1.5-flash-latest"

Init ==
    /\ environ \in {None, "", "key"}
    /\ system \in {"Windows", "Linux"}
    \* app.py has no `import platform`: the name resolves only if the
    \* interpreter's builtins were given one before app.py is loaded.
    /\ platform_bound \in BOOLEAN
    /\ init_pc = "load_dotenv"
    /\ init_error = None
    /\ tesseract_cmd = None
    /\ api_key = None
    /\ genai_key = None
    /\ model = None
    /\ app = None
    /\ clients \in {{"r1"}, Requests}
    /\ fs = {}
    /\ req = [r \in Requests |-> IdleRequest]

\* Line 16: load_dotenv() sets the variables of .env that the environment
\* does not already define.
LoadDotenv ==
    /\ init_pc = "load_dotenv"
    /\ \E dotenv \in {None, "key"} :
          environ' = IF environ = None THEN dotenv ELSE environ
    /\ init_pc' = "tesseract"
    /\ UNCHANGED << system, platform_bound, init_error, tesseract_cmd,
                    api_key, genai_key, model, app, clients, fs, req >>

\* Lines 20-25.
ConfigureTesseract ==
    /\ init_pc = "tesseract"
    /\ IF ~platform_bound
       THEN /\ init_error' = "NameError: name 'platform' is not defined"
            /\ init_pc' = "failed"
            /\ UNCHANGED tesseract_cmd
       ELSE /\ tesseract_cmd' =
                  IF system = "Windows" THEN WindowsTesseract ELSE "tesseract"
            /\ init_pc' = "getenv"
            /\ UNCHANGED init_error
    /\ UNCHANGED << environ, system, platform_bound, api_key, genai_key,
                    model, app, clients, fs, req >>

\* Lines 27-29.
GetApiKey ==
    /\ init_pc = "getenv"
    /\ api_key' = environ
    /\ IF environ \in {None, ""}
       THEN /\ init_error' =
                  "ValueError: GEMINI_API_KEY not found in .env file. Please add it."
            /\ init_pc' = "failed"
       ELSE /\ init_pc' = "configure"
            /\ UNCHANGED init_error
    /\ UNCHANGED << environ, system, platform_bound, tesseract_cmd,
                    genai_key, model, app, clients, fs, req >>

\* Line 30.
ConfigureGenai ==
    /\ init_pc = "configure"
    /\ genai_key' = api_key
    /\ init_pc' = "model"
    /\ UNCHANGED << environ, system, platform_bound, init_error,
                    tesseract_cmd, api_key, model, app, clients, fs,
                    req >>

\* Line 34.
CreateModel ==
    /\ init_pc = "model"
    /\ model' = ModelName
    /\ init_pc' = "app"
    /\ UNCHANGED << environ, system, platform_bound, init_error,
                    tesseract_cmd, api_key, genai_key, app, clients, fs,
                    req >>

\* Lines 36 and 166-167: the Flask application is created and served.
CreateApp ==
    /\ init_pc = "app"
    /\ app' = "Flask"
    /\ init_pc' = "serving"
    /\ UNCHANGED << environ, system, platform_bound, init_error,
                    tesseract_cmd, api_key, genai_key, model, clients, fs,
                    req >>

\* ------------------------------------------------ the temporary directory
Exists(files, path) == \E f \in files : f.path = path

FileData(files, path) == (CHOOSE f \in files : f.path = path).data

\* open(path, "wb").write(data)
WriteFile(files, path, data) ==
    {IF f.path = path THEN [f EXCEPT !.data = data] ELSE f : f \in files}

\* os.unlink(path)
Unlink(files, path) == {f \in files : f.path # path}

\* ------------------------------------------------- the code's expressions
\* Line 45.
IsPdf(path, mime) ==
    EndsWith(Lower(path), <<".", "p", "d", "f">>) \/ mime = PdfMime

\* Faulty variant of FullText: the page texts joined by a bare newline.
FullText_PlainNewline(pages) ==
    Join(<<"\n">>, [k \in 1..Len(pages) |-> pages[k].text])

\* Line 132.
FullText(pages) ==
    Join(PageBreak, [k \in 1..Len(pages) |-> pages[k].text])

\* Line 134: not full_text.strip()
NoTextExtracted(text) == ~StripNonEmpty(text)

\* Line 55.
PdfFailure(e) ==
    "Failed to process PDF. Is Poppler installed and in your PATH? Error: " \o e

\* Line 103.
ParseFallback(raw) ==
    [error |-> "Failed to parse Gemini response as JSON", raw_text |-> raw]

\* Faulty variant of InternalError: the exception's message is left out.
InternalError_NoMessage(e) ==
    Result(500, [error |-> "An internal error occurred"])

\* Line 157.
InternalError(e) ==
    Result(500, [error |-> "An internal error occurred: " \o e])

\* Lines 142-146 and 153.
Success(name, text, entities) ==
    Result(200, [filename |-> name, ocr_text |-> text,
                 extracted_entities |-> entities])

\* Faulty variant of ParseReply: a reply that is not JSON is not caught.
ParseReply_DecodeErrorEscapes(resp) ==
    IF ~resp.text_ok \/ ~JsonLoads(resp.text).ok
    THEN [raised |-> TRUE, error |-> TextAccessorError, value |-> NoJson]
    ELSE [raised |-> FALSE, error |-> None, value |-> JsonLoads(resp.text).val]

\* Lines 98-106 on a response object: the value returned, or the exception
\* that leaves extract_entities_with_gemini.
ParseReply(resp) ==
    IF ~resp.text_ok
    THEN \* response.text raises at line 99, is caught at line 104, and is
         \* read again at line 106, where it raises once more
         [raised |-> TRUE, error |-> TextAccessorError, value |-> NoJson]
    ELSE LET parsed == JsonLoads(resp.text) IN
         IF parsed.ok
         THEN [raised |-> FALSE, error |-> None, value |-> parsed.val]
         ELSE [raised |-> FALSE, error |-> None,
               value |-> ParseFallback(resp.text)]

\* ------------------------------------------- extract_entities_endpoint
Step(r, to, events) ==
    [req[r] EXCEPT !.pc = to, !.log = @ \o events]

\* An exception with message e is raised after the steps in events, inside
\* the try statement: lines 155-157, then on to the finally clause.
Caught(r, e, events) ==
    [Step(r, "exists", events \o <<"except", "result">>) EXCEPT
        !.e = e, !.result = InternalError(e)]

\* A client's request reaches the handler.
Receive(r) ==
    /\ init_pc = "serving"
    /\ r \in clients
    /\ req[r].pc = "idle"
    /\ \E u \in (IF Cardinality(clients) = 1 THEN Uploads
                 ELSE ConcurrentUploads) :
          req' = [req EXCEPT ![r] =
                    [Step(r, "validate", <<"received">>) EXCEPT !.upload = u]]
    /\ UNCHANGED << init_vars, clients, fs >>

\* Faulty variant of Validate: the test of line 118 is missing.
Validate_NoFilenameTest(r) ==
    /\ req[r].pc = "validate"
    /\ req' = [req EXCEPT ![r] =
          IF ~req[r].upload.has_file
          THEN [Step(r, "return", <<"result">>) EXCEPT !.result =
                  Result(400, [error |-> "No file part in the request"])]
          ELSE Step(r, "mktemp", << >>)]
    /\ UNCHANGED << init_vars, clients, fs >>

\* Lines 114-119.
Validate(r) ==
    /\ req[r].pc = "validate"
    /\ req' = [req EXCEPT ![r] =
          IF ~req[r].upload.has_file
          THEN [Step(r, "return", <<"result">>) EXCEPT !.result =
                  Result(400, [error |-> "No file part in the request"])]
          ELSE IF req[r].upload.filename = << >>
          THEN [Step(r, "return", <<"result">>) EXCEPT !.result =
                  Result(400, [error |-> "No file selected"])]
          ELSE Step(r, "mktemp", << >>)]
    /\ UNCHANGED << init_vars, clients, fs >>

\* Faulty variant of MakeTemp: the file is opened without exclusive creation, so a
\* name in use can be handed out again.
MakeTemp_NotExclusive(r) ==
    /\ req[r].pc = "mktemp"
    /\ \E stem \in TmpStems :
          LET path == stem \o SplitExt(req[r].upload.filename) IN
          /\ fs' = fs \cup {[path |-> path, owner |-> r, data |-> EmptyData]}
          /\ req' = [req EXCEPT ![r] =
                [Step(r, "save", <<"created">>) EXCEPT !.file_path = path]]
    /\ UNCHANGED << init_vars, clients >>

\* Lines 121-125: a new file under a name no existing file has.
MakeTemp(r) ==
    /\ req[r].pc = "mktemp"
    /\ \E stem \in TmpStems :
          LET path == stem \o SplitExt(req[r].upload.filename) IN
          /\ ~Exists(fs, path)
          /\ fs' = fs \cup {[path |-> path, owner |-> r, data |-> EmptyData]}
          /\ req' = [req EXCEPT ![r] =
                [Step(r, "save", <<"created">>) EXCEPT !.file_path = path]]
    /\ UNCHANGED << init_vars, clients >>

\* Line 126, outside the try statement: the upload is written, or the write
\* fails and the exception leaves the handler.
SaveUpload(r) ==
    /\ req[r].pc = "save"
    /\ \/ /\ fs' = WriteFile(fs, req[r].file_path, req[r].upload.data)
          /\ req' = [req EXCEPT ![r] = Step(r, "sniff", <<"saved">>)]
       \/ /\ req' = [req EXCEPT ![r] = Step(r, "unhandled", <<"save_failed">>)]
          /\ UNCHANGED fs
    /\ UNCHANGED << init_vars, clients >>

\* Lines 130-131 and 43-45: ocr_pdf_or_image is called and sniffs the type.
Sniff(r) ==
    /\ req[r].pc = "sniff"
    /\ \/ /\ Exists(fs, req[r].file_path)
          /\ LET mime == FileData(fs, req[r].file_path).mime IN
             req' = [req EXCEPT ![r] =
                [Step(r, IF IsPdf(req[r].file_path, mime)
                         THEN "convert" ELSE "open", <<"ocr">>)
                    EXCEPT !.file_type = mime, !.text_blocks = << >>]]
       \/ req' = [req EXCEPT ![r] =
                Caught(r, MagicError, <<"ocr", "magic_failed">>)]
    /\ UNCHANGED << init_vars, clients, fs >>

\* Lines 49-50 and 54-55: the PDF is rasterised, one image per page.
Convert(r) ==
    /\ req[r].pc = "convert"
    /\ \/ /\ Exists(fs, req[r].file_path)
          /\ FileData(fs, req[r].file_path).mime = PdfMime
          /\ LET pages == FileData(fs, req[r].file_path).pages IN
             req' = [req EXCEPT ![r] =
                [Step(r, IF Len(pages) = 0 THEN "join" ELSE "ocr_page", << >>)
                    EXCEPT !.images = pages, !.i = 1]]
       \/ req' = [req EXCEPT ![r] = Caught(r, PdfFailure(PopplerError), <<"rasterize_failed">>)]
    /\ UNCHANGED << init_vars, clients, fs >>

\* Lines 51-55: one iteration of the loop over the page images.
OcrPdfPage(r) ==
    /\ req[r].pc = "ocr_page"
    /\ \/ req' = [req EXCEPT ![r] =
            [Step(r, IF req[r].i = Len(req[r].images)
                     THEN "join" ELSE "ocr_page", << >>)
                EXCEPT !.text_blocks =
                          Append(@, [page |-> req[r].i,
                                     text |-> req[r].images[req[r].i]]),
                       !.i = @ + 1]]
       \/ req' = [req EXCEPT ![r] = Caught(r, PdfFailure(TesseractError), <<"tesseract_failed">>)]
    /\ UNCHANGED << init_vars, clients, fs >>

\* Line 58.
OpenImage(r) ==
    /\ req[r].pc = "open"
    /\ \/ /\ Exists(fs, req[r].file_path)
          /\ FileData(fs, req[r].file_path).mime = ImageMime
          /\ req' = [req EXCEPT ![r] =
                [Step(r, "ocr_image", << >>) EXCEPT
                    !.images = FileData(fs, req[r].file_path).pages]]
       \/ req' = [req EXCEPT ![r] = Caught(r, ImageOpenError, <<"open_failed">>)]
    /\ UNCHANGED << init_vars, clients, fs >>

\* Lines 59-60.
OcrImage(r) ==
    /\ req[r].pc = "ocr_image"
    /\ \/ req' = [req EXCEPT ![r] =
            [Step(r, "join", << >>) EXCEPT !.text_blocks =
                Append(@, [page |-> 1, text |-> req[r].images[1]])]]
       \/ req' = [req EXCEPT ![r] = Caught(r, TesseractError, <<"tesseract_failed">>)]
    /\ UNCHANGED << init_vars, clients, fs >>

\* Lines 62 and 131-135.
JoinPages(r) ==
    /\ req[r].pc = "join"
    /\ LET text == FullText(req[r].text_blocks) IN
       req' = [req EXCEPT ![r] =
          IF NoTextExtracted(text)
          THEN [Step(r, "exists", <<"ocr_done", "result">>) EXCEPT
                  !.full_text = text,
                  !.result = Result(400, [error |->
                      "OCR could not extract any text from the document."])]
          ELSE [Step(r, "generate", <<"ocr_done">>) EXCEPT
                  !.full_text = text]]
    /\ UNCHANGED << init_vars, clients, fs >>

\* Lines 139 and 69-96: the call of the model, outside the try statement
\* of extract_entities_with_gemini.
GenerateContent(r) ==
    /\ req[r].pc = "generate"
    /\ model # None
    /\ \/ \E t \in ReplyTexts :
            req' = [req EXCEPT ![r] =
                [Step(r, "parse", <<"gemini">>) EXCEPT
                    !.response = Reply(TRUE, t)]]
       \/ req' = [req EXCEPT ![r] =
                [Step(r, "parse", <<"gemini">>) EXCEPT
                    !.response = Reply(FALSE, << >>)]]
       \/ req' = [req EXCEPT ![r] =
                Caught(r, GenerateError, <<"gemini", "generate_failed">>)]
    /\ UNCHANGED << init_vars, clients, fs >>

\* Lines 98-106, then line 139's assignment or the handler's except clause.
HandleReply(r) ==
    /\ req[r].pc = "parse"
    /\ LET out == ParseReply(req[r].response) IN
       req' = [req EXCEPT ![r] =
          IF out.raised THEN Caught(r, out.error, <<"text_failed">>)
          ELSE [Step(r, "build", << >>) EXCEPT !.gemini_json = out.value]]
    /\ UNCHANGED << init_vars, clients, fs >>

\* Lines 142-153.
BuildResponse(r) ==
    /\ req[r].pc = "build"
    /\ req' = [req EXCEPT ![r] =
          [Step(r, "exists", <<"result">>) EXCEPT !.result =
              Success(req[r].upload.filename, req[r].full_text,
                      req[r].gemini_json)]]
    /\ UNCHANGED << init_vars, clients, fs >>

\* Line 161, in the finally clause.
CleanupExists(r) ==
    /\ req[r].pc = "exists"
    /\ req' = [req EXCEPT ![r] =
          Step(r, IF Exists(fs, req[r].file_path) THEN "unlink" ELSE "return",
               <<"cleanup">>)]
    /\ UNCHANGED << init_vars, clients, fs >>

\* Lines 162-163.
CleanupUnlink(r) ==
    /\ req[r].pc = "unlink"
    /\ fs' = Unlink(fs, req[r].file_path)
    /\ req' = [req EXCEPT ![r] = Step(r, "return", << >>)]
    /\ UNCHANGED << init_vars, clients >>

\* The handler returns and Flask sends its return value.
Return(r) ==
    /\ req[r].pc = "return"
    /\ req' = [req EXCEPT ![r] =
          [Step(r, "done", <<"sent">>) EXCEPT !.sent = Append(@, req[r].result)]]
    /\ UNCHANGED << init_vars, clients, fs >>

\* An exception left the handler: Flask answers with its own error page.
FlaskError(r) ==
    /\ req[r].pc = "unhandled"
    /\ req' = [req EXCEPT ![r] =
          [Step(r, "done", <<"sent">>) EXCEPT !.sent =
              Append(@, Result(500, [html |-> "Internal Server Error"]))]]
    /\ UNCHANGED << init_vars, clients, fs >>

Next ==
    \/ LoadDotenv
    \/ ConfigureTesseract
    \/ GetApiKey
    \/ ConfigureGenai
    \/ CreateModel
    \/ CreateApp
    \/ \E r \in Requests :
          \/ Receive(r)
          \/ Validate(r)
          \/ MakeTemp(r)
          \/ SaveUpload(r)
          \/ Sniff(r)
          \/ Convert(r)
          \/ OcrPdfPage(r)
          \/ OpenImage(r)
          \/ OcrImage(r)
          \/ JoinPages(r)
          \/ GenerateContent(r)
          \/ HandleReply(r)
          \/ BuildResponse(r)
          \/ CleanupExists(r)
          \/ CleanupUnlink(r)
          \/ Return(r)
          \/ FlaskError(r)

Spec == Init /\ [][Next]_vars

\* ------------------------------------------------------------ properties
Has(r, ev) == \E k \in 1..Len(req[r].log) : req[r].log[k] = ev

Count(r, ev) == Cardinality({k \in 1..Len(req[r].log) : req[r].log[k] = ev})

\* Some a is logged before some b.
Before(r, a, b) ==
    \E k1, k2 \in 1..Len(req[r].log) :
        k1 < k2 /\ req[r].log[k1] = a /\ req[r].log[k2] = b

\* Files in the temporary directory that request r created.
OwnFiles(r) == {f \in fs : f.owner = r}

Blank(t) == \A k \in 1..Len(t) : t[k] \in {" ", "\n", "\t", "\r"}

Separator ==
    << "\n", "\n", "-", "-", "-", " ", "P", "a", "g", "e", " ",
       "B", "r", "e", "a", "k", " ", "-", "-", "-", "\n", "\n" >>

\* Where part k starts in a text made of the parts with a separator between
\* consecutive ones (0-based offset).
RECURSIVE Offset(_, _)
Offset(parts, k) ==
    IF k = 1 THEN 0
    ELSE Offset(parts, k - 1) + Len(parts[k - 1]) + Len(Separator)

\* text is parts[1], Separator, parts[2], ..., parts[n]: every part at its
\* place, a separator between consecutive parts, and nothing else.
Concatenated(text, parts) ==
    LET n == Len(parts) IN
    IF n = 0 THEN text = << >>
    ELSE /\ Len(text) = Offset(parts, n) + Len(parts[n])
         /\ \A k \in 1..n :
               SubSeq(text, Offset(parts, k) + 1,
                      Offset(parts, k) + Len(parts[k])) = parts[k]
         /\ \A k \in 1..(n - 1) :
               SubSeq(text, Offset(parts, k) + Len(parts[k]) + 1,
                      Offset(parts, k + 1)) = Separator

EmptyOcrResult ==
    [status |-> 400,
     body |-> [error |-> "OCR could not extract any text from the document."]]

\* C1: once a request that created a temporary file has been answered, no
\* file created by that request is left in the temporary directory.
C1_TempFileRemoved ==
    \A r \in Requests :
        (req[r].pc = "done" /\ Has(r, "created")) => OwnFiles(r) = {}

\* C2: when OCR returns and every page's text is empty or whitespace, the
\* handler's result is the 400 "OCR could not extract any text" response and
\* the model is not called.
C2_EmptyOcrRejected ==
    \A r \in Requests :
        (/\ Has(r, "ocr_done")
         /\ \A k \in 1..Len(req[r].text_blocks) :
               Blank(req[r].text_blocks[k].text))
        => (req[r].result = EmptyOcrResult /\ ~Has(r, "gemini"))

\* C3: once extract_entities_with_gemini has been called, whatever happens
\* in the call or in reading its response, the handler's result is a 200.
C3_ExtractionNeverRaises ==
    \A r \in Requests :
        (Has(r, "gemini") /\ req[r].result.status # 0)
        => req[r].result.status = 200

\* C4: when the model's reply is text that is not valid JSON, the response
\* sent is a 200 whose extracted_entities is exactly the fallback object with
\* the reply's text, and whose filename and ocr_text are the upload's name
\* and the OCR text.
C4_MalformedJsonFallback ==
    \A r \in Requests :
        (/\ req[r].pc = "done"
         /\ req[r].response.present
         /\ req[r].response.text_ok
         /\ ~JsonLoads(req[r].response.text).ok)
        => req[r].sent =
             << [status |-> 200,
                 body |-> [filename |-> req[r].upload.filename,
                           ocr_text |-> req[r].full_text,
                           extracted_entities |->
                             [error |-> "Failed to parse Gemini response as JSON",
                              raw_text |-> req[r].response.text]]] >>

C4_Witness ==
    \E r \in Requests :
        /\ req[r].pc = "done"
        /\ req[r].response.text_ok
        /\ req[r].response.text = <<"o", "k">>

\* C5: a request without a file part is answered 400 "No file part in the
\* request", one with an empty filename 400 "No file selected"; neither
\* creates a temporary file nor reaches OCR or the model.
Rejected(r, message) ==
    /\ ~Has(r, "created") /\ ~Has(r, "ocr") /\ ~Has(r, "gemini")
    /\ OwnFiles(r) = {}
    /\ req[r].pc \in {"validate", "return", "done"}
    /\ req[r].pc = "done"
          => req[r].sent = << [status |-> 400, body |-> [error |-> message]] >>

C5_MissingFileRejected ==
    \A r \in Requests :
        Has(r, "received") =>
            /\ ~req[r].upload.has_file
                  => Rejected(r, "No file part in the request")
            /\ (req[r].upload.has_file /\ req[r].upload.filename = << >>)
                  => Rejected(r, "No file selected")

C5_Witness ==
    /\ req["r1"].pc = "done" /\ ~req["r1"].upload.has_file
    /\ req["r2"].pc = "done" /\ req["r2"].upload.has_file
    /\ req["r2"].upload.filename = << >>

\* C6: when ocr_pdf_or_image returns for a PDF of n pages, its result is
\* the n pages' texts numbered 1..n in page order, and for any other upload
\* one entry numbered 1; the ocr_text of a 200 response is those texts in
\* that order with the page-break marker between consecutive ones and
\* nowhere else added.
C6_PagesInOrder ==
    \A r \in Requests :
        Has(r, "ocr_done") =>
            LET doc == req[r].upload.data
                tb == req[r].text_blocks
            IN /\ doc.mime = PdfMime =>
                     /\ Len(tb) = Len(doc.pages)
                     /\ \A k \in 1..Len(doc.pages) :
                           tb[k] = [page |-> k, text |-> doc.pages[k]]
               /\ doc.mime # PdfMime =>
                     tb = << [page |-> 1, text |-> doc.pages[1]] >>
               /\ req[r].result.status = 200 =>
                     /\ Concatenated(req[r].result.body.ocr_text, doc.pages)
                     /\ doc.mime # PdfMime =>
                           req[r].result.body.ocr_text = doc.pages[1]

C6_Witness ==
    \E r \in Requests :
        /\ req[r].pc = "done"
        /\ req[r].result.status = 200
        /\ req[r].upload.data.mime = PdfMime
        /\ Len(req[r].upload.data.pages) = 2
        /\ Len(req[r].result.body.ocr_text) > Len(Separator)

\* C7: an exception raised in the OCR step or the extraction step is caught
\* once; the one response is a 500 whose error is "An internal error
\* occurred: " and the exception's message; a rasterisation failure carries
\* the message that asks about Poppler, and nothing is attempted again.
FailureEvents ==
    { "magic_failed", "rasterize_failed", "tesseract_failed", "open_failed",
      "generate_failed", "text_failed" }

C7_CaughtOnce ==
    \A r \in Requests :
        /\ \A ev \in FailureEvents :
              Has(r, ev) => (Count(r, ev) = 1 /\ Has(r, "except"))
        /\ Has(r, "except") =>
              /\ Count(r, "except") = 1
              /\ \E ev \in FailureEvents :
                    /\ Has(r, ev)
                    /\ \A other \in FailureEvents \ {ev} : ~Has(r, other)
              /\ req[r].result =
                    [status |-> 500,
                     body |-> [error |->
                        "An internal error occurred: " \o req[r].e]]
              /\ Count(r, "ocr") <= 1 /\ Count(r, "gemini") <= 1
              /\ req[r].pc = "done" => req[r].sent = << req[r].result >>
        /\ Has(r, "rasterize_failed") =>
              req[r].result.body.error =
                 "An internal error occurred: Failed to process PDF. Is Poppler installed and in your PATH? Error: "
                    \o PopplerError

C7_Witness ==
    \E r \in Requests :
        /\ req[r].pc = "done"
        /\ Has(r, "rasterize_failed")
        /\ req[r].sent[1].status = 500

\* C8: initialisation ends in failure only when the API key is absent, and
\* then neither the model nor the application exists and no request is
\* received; with the key present it ends with the application serving.
KeyAbsent == environ \in {None, ""}

C8_StartupFailsOnlyWithoutKey ==
    /\ init_pc = "failed" => KeyAbsent
    /\ (init_pc # "load_dotenv" /\ KeyAbsent) =>
          /\ model = None /\ app = None /\ init_pc # "serving"
          /\ \A r \in Requests : req[r].pc = "idle"
    /\ init_pc = "serving" =>
          /\ ~KeyAbsent /\ genai_key = environ
          /\ model = ModelName /\ app # None
          /\ tesseract_cmd =
                IF system = "Windows" THEN WindowsTesseract ELSE "tesseract"

\* The order of one request's steps: OCR at most once and after the save,
\* the model at most once and after OCR has returned, one response, and the
\* cleanup after the result is determined and before the response is sent.
StepOrder ==
    \A r \in Requests :
        /\ Count(r, "ocr") <= 1 /\ Count(r, "gemini") <= 1
        /\ Count(r, "created") <= 1 /\ Count(r, "saved") <= 1
        /\ Count(r, "result") <= 1 /\ Count(r, "cleanup") <= 1
        /\ Len(req[r].sent) = Count(r, "sent")
        /\ Len(req[r].sent) = (IF req[r].pc = "done" THEN 1 ELSE 0)
        /\ Has(r, "saved") => Before(r, "created", "saved")
        /\ Has(r, "ocr") => Before(r, "saved", "ocr")
        /\ Has(r, "gemini") => Before(r, "ocr_done", "gemini")
        /\ Has(r, "ocr_done") => Before(r, "ocr", "ocr_done")
        /\ (Has(r, "saved") /\ Has(r, "sent")) =>
              /\ Before(r, "result", "cleanup")
              /\ Before(r, "cleanup", "sent")
        /\ Has(r, "cleanup") => Before(r, "result", "cleanup")

\* C9: the steps of a request happen in the order received, saved, OCR,
\* extraction, responded, each at most once, the model being called only
\* after OCR has read some text off the document, with one response and the
\* cleanup after the result on every path past the save.
C9_StepOrder ==
    /\ StepOrder
    /\ \A r \in Requests :
          Has(r, "gemini") =>
              \E k \in 1..Len(req[r].text_blocks) :
                  ~Blank(req[r].text_blocks[k].text)

\* C10: concurrent requests have distinct temporary files; from its
\* creation to its removal a request's file is there under the request's
\* own path with the request's own upload in it; what a request reads and
\* what it answers come from its own upload; and the model handle, the API
\* key and the OCR command stay as initialisation left them.
FileInUse ==
    { "sniff", "convert", "open", "ocr_page", "ocr_image", "join",
      "generate", "parse", "build", "exists", "unlink" }

C10_RequestsIsolated ==
    /\ \A f, g \in fs : f.path = g.path => f = g
    /\ \A r \in Requests :
          /\ req[r].pc = "save" =>
                \E f \in fs : f.path = req[r].file_path /\ f.owner = r
          /\ req[r].pc \in FileInUse =>
                \E f \in fs : /\ f.path = req[r].file_path
                              /\ f.owner = r
                              /\ f.data = req[r].upload.data
          /\ req[r].file_type # None =>
                req[r].file_type = req[r].upload.data.mime
          /\ req[r].images # << >> => req[r].images = req[r].upload.data.pages
          /\ \A k \in 1..Len(req[r].sent) :
                req[r].sent[k].status = 200 =>
                   /\ req[r].sent[k].body.filename = req[r].upload.filename
                   /\ Concatenated(req[r].sent[k].body.ocr_text,
                                   req[r].upload.data.pages)
    /\ init_pc = "serving" =>
          /\ model = ModelName
          /\ genai_key = "key" /\ api_key = "key"
          /\ tesseract_cmd =
                IF system = "Windows" THEN WindowsTesseract ELSE "tesseract"

C10_Witness ==
    /\ req["r1"].pc = "unlink"
    /\ req["r2"].pc \in {"sniff", "open", "convert"}
    /\ SplitExt(req["r1"].upload.filename) = SplitExt(req["r2"].upload.filename)

====
